---- MODULE Spec2Model ----
(***************************************************************************)
(* GoogLeNet notebook (chapter_convolutional-modern/googlenet.ipynb).      *)
(*                                                                         *)
(* The notebook is modelled as the sequence of statements its code cells   *)
(* execute.  Tensors are modelled by their shape (N, C, H, W); inside      *)
(* Inception.forward a tensor also carries `via`, the sequence of layer    *)
(* attributes applied to the block input x to obtain it, so that the data  *)
(* flow of the four paths is part of the state.                            *)
(*                                                                         *)
(* Python tuples are 0-based, TLA+ sequences 1-based: the constructor      *)
(* argument c2[0] of the source is c2[1] here and c2[1] is c2[2].          *)
(***************************************************************************)
EXTENDS Integers, Sequences, FiniteSets, TLC

VARIABLES
    pc,       \* the statement of the notebook that executes next
    b1, b2, b3, b4, b5,   \* the five nn.Sequential groups (NoLayer before their cell ran)
    net,      \* the top-level nn.Sequential
    X,        \* shape of the tensor bound to X (<<>> before cell 7)
    li,       \* number of iterations of `for layer in net` completed
    layer,    \* the loop variable
    ci,       \* number of children of `layer` already applied by Sequential.forward
    ip,       \* position inside Inception.forward (0: not inside)
    x,        \* the argument of Inception.forward
    p1, p2, p3, p4,   \* the locals of Inception.forward
    t,        \* the value of the inner call on lines 94-96
    cat,      \* the last nd.concat: its block, the block input, operands and result
    out,      \* what the shape-printing loop printed
    params,   \* the initializer the parameter values of net derive from
    epoch,    \* epochs of d2l.train_ch5 completed
    trained   \* per epoch run, the initializer its parameters derive from

vars == <<pc, b1, b2, b3, b4, b5, net, X, li, layer, ci, ip, x,
          p1, p2, p3, p4, t, cat, out, params, epoch, trained>>

blocks == <<b1, b2, b3, b4, b5, net>>
frame == <<x, p1, p2, p3, p4, t>>
training == <<params, epoch, trained>>

-----------------------------------------------------------------------------
(* Bounds of the inputs drawn for the forward pass on arbitrary inputs.     *)
MaxBatch == 2
MaxInChannels == 2
MaxSide == 3
MaxChannels == 2

-----------------------------------------------------------------------------
(* Layer constructors of mxnet.gluon.nn, with the keyword arguments the     *)
(* notebook passes (strides defaults to 1 and padding to 0 for Conv2D).     *)

Conv2D(channels, kernel_size, strides, padding) ==
    [kind |-> "Conv2D", channels |-> channels, kernel_size |-> kernel_size,
     strides |-> strides, padding |-> padding]

MaxPool2D(pool_size, strides, padding) ==
    [kind |-> "MaxPool2D", pool_size |-> pool_size,
     strides |-> strides, padding |-> padding]

GlobalAvgPool2D == [kind |-> "GlobalAvgPool2D"]

Dense(units) == [kind |-> "Dense", units |-> units]

Sequential(children) == [kind |-> "Sequential", children |-> children]

NoLayer == [kind |-> "None"]

(* A mutant of Inception: the 5 x 5 convolution padded like the 3 x 3 one.  *)
InceptionPad1(c1, c2, c3, c4) ==
    [kind |-> "Inception",
     p1_1 |-> Conv2D(c1, 1, 1, 0),
     p2_1 |-> Conv2D(c2[1], 1, 1, 0),
     p2_2 |-> Conv2D(c2[2], 3, 1, 1),
     p3_1 |-> Conv2D(c3[1], 1, 1, 0),
     p3_2 |-> Conv2D(c3[2], 5, 1, 1),
     p4_1 |-> MaxPool2D(3, 1, 1),
     p4_2 |-> Conv2D(c4, 1, 1, 0)]

(* Inception.__init__: the seven layers of the four paths.                  *)
Inception(c1, c2, c3, c4) ==
    [kind |-> "Inception",
     p1_1 |-> Conv2D(c1, 1, 1, 0),
     p2_1 |-> Conv2D(c2[1], 1, 1, 0),
     p2_2 |-> Conv2D(c2[2], 3, 1, 1),
     p3_1 |-> Conv2D(c3[1], 1, 1, 0),
     p3_2 |-> Conv2D(c3[2], 5, 1, 2),
     p4_1 |-> MaxPool2D(3, 1, 1),
     p4_2 |-> Conv2D(c4, 1, 1, 0)]

-----------------------------------------------------------------------------
(* Shape inference of the layers.                                           *)

(* Output extent of a convolution or pooling window along one axis, as      *)
(* mxnet computes it: floor((n + 2p - k) / s) + 1 (pooling uses the default *)
(* 'valid' convention).                                                     *)
WindowOut(n, k, s, p) == ((n + 2 * p - k) \div s) + 1

(* Shape of l(shape) for a layer l that is not a container.  Conv2D sets    *)
(* the channel axis to its channels argument whatever the input channels    *)
(* are (in_channels is inferred); pooling keeps the channel axis; Dense     *)
(* flattens all axes but the first into units outputs.                      *)
Forward(l, shape) ==
    CASE l.kind = "Conv2D" ->
           <<shape[1], l.channels,
             WindowOut(shape[3], l.kernel_size, l.strides, l.padding),
             WindowOut(shape[4], l.kernel_size, l.strides, l.padding)>>
      [] l.kind = "MaxPool2D" ->
           <<shape[1], shape[2],
             WindowOut(shape[3], l.pool_size, l.strides, l.padding),
             WindowOut(shape[4], l.pool_size, l.strides, l.padding)>>
      [] l.kind = "GlobalAvgPool2D" -> <<shape[1], shape[2], 1, 1>>
      [] l.kind = "Dense" -> <<shape[1], l.units>>

NoTensor == [shape |-> <<>>, via |-> <<>>]

NoCat == [block |-> NoLayer, input |-> <<>>, parts |-> <<>>, result |-> <<>>]

(* self.<name>(a) inside Inception.forward.                                 *)
Apply(blk, name, a) ==
    [shape |-> Forward(blk[name], a.shape), via |-> Append(a.via, name)]

RECURSIVE SumDim(_, _)
SumDim(ts, d) ==
    IF ts = <<>> THEN 0 ELSE ts[1].shape[d] + SumDim(Tail(ts), d)

(* nd.concat of the tensors ts along dim, the 0-based axis; every other     *)
(* axis must agree, otherwise the framework raises and no tensor results    *)
(* (<<>>).                                                                  *)
Concat(ts, dim) ==
    LET first == ts[1].shape
        agree == \A i \in 1..Len(ts) :
                    /\ Len(ts[i].shape) = Len(first)
                    /\ \A d \in 1..Len(first) :
                          d # dim + 1 => ts[i].shape[d] = first[d]
    IN IF agree
       THEN [d \in 1..Len(first) |->
                IF d = dim + 1 THEN SumDim(ts, d) ELSE first[d]]
       ELSE <<>>

-----------------------------------------------------------------------------
(* The arguments of the add calls on b1 .. b5.                               *)

(* A mutant of b1_layers: strides=2 left out of the 7 x 7 convolution.      *)
b1_layers_stride1 == <<Conv2D(64, 7, 1, 3), MaxPool2D(3, 2, 1)>>

b1_layers == <<Conv2D(64, 7, 2, 3), MaxPool2D(3, 2, 1)>>

(* A mutant of b2_layers: the 3 x 3 convolution doubles the channels.       *)
b2_layers_double ==
    <<Conv2D(64, 1, 1, 0), Conv2D(128, 3, 1, 1), MaxPool2D(3, 2, 1)>>

b2_layers == <<Conv2D(64, 1, 1, 0), Conv2D(192, 3, 1, 1), MaxPool2D(3, 2, 1)>>

(* A mutant of b3_layers: c4 of the first block is 64 instead of 32.        *)
b3_layers_typo ==
    <<Inception(64, <<96, 128>>, <<16, 32>>, 64),
      Inception(128, <<128, 192>>, <<32, 96>>, 64),
      MaxPool2D(3, 2, 1)>>

b3_layers ==
    <<Inception(64, <<96, 128>>, <<16, 32>>, 32),
      Inception(128, <<128, 192>>, <<32, 96>>, 64),
      MaxPool2D(3, 2, 1)>>

(* A mutant of b4_layers: the fourth Inception block is missing.            *)
b4_layers_four ==
    <<Inception(192, <<96, 208>>, <<16, 48>>, 64),
      Inception(160, <<112, 224>>, <<24, 64>>, 64),
      Inception(128, <<128, 256>>, <<24, 64>>, 64),
      Inception(256, <<160, 320>>, <<32, 128>>, 128),
      MaxPool2D(3, 2, 1)>>

(* A mutant of b4_layers: c1 and c2[1] of the first block are exchanged.    *)
b4_layers_swapped ==
    <<Inception(208, <<96, 192>>, <<16, 48>>, 64),
      Inception(160, <<112, 224>>, <<24, 64>>, 64),
      Inception(128, <<128, 256>>, <<24, 64>>, 64),
      Inception(112, <<144, 288>>, <<32, 64>>, 64),
      Inception(256, <<160, 320>>, <<32, 128>>, 128),
      MaxPool2D(3, 2, 1)>>

b4_layers ==
    <<Inception(192, <<96, 208>>, <<16, 48>>, 64),
      Inception(160, <<112, 224>>, <<24, 64>>, 64),
      Inception(128, <<128, 256>>, <<24, 64>>, 64),
      Inception(112, <<144, 288>>, <<32, 64>>, 64),
      Inception(256, <<160, 320>>, <<32, 128>>, 128),
      MaxPool2D(3, 2, 1)>>

(* A mutant of b5_layers: the block ends with the pooling layer of b3 and   *)
(* b4 instead of the global average pooling.                                *)
b5_layers_maxpool ==
    <<Inception(256, <<160, 320>>, <<32, 128>>, 128),
      Inception(384, <<192, 384>>, <<48, 128>>, 128),
      MaxPool2D(3, 2, 1)>>

b5_layers ==
    <<Inception(256, <<160, 320>>, <<32, 128>>, 128),
      Inception(384, <<192, 384>>, <<48, 128>>, 128),
      GlobalAvgPool2D>>

num_epochs == 5

-----------------------------------------------------------------------------
(* A tensor exists only with every dimension positive; the framework raises *)
(* on anything else.                                                        *)
Valid(shape) == shape # <<>> /\ \A d \in 1..Len(shape) : shape[d] > 0

(* Block.initialize(init, force_reinit): parameters that are already        *)
(* initialized are left alone unless force_reinit is set.                   *)
Initialize(cur, init, force_reinit) ==
    IF cur # "uninitialized" /\ ~force_reinit THEN cur ELSE init

Init ==
    /\ pc = "cell1"
    /\ b1 = NoLayer /\ b2 = NoLayer /\ b3 = NoLayer /\ b4 = NoLayer
    /\ b5 = NoLayer
    /\ net = NoLayer
    /\ X = <<>>
    /\ li = 0
    /\ layer = NoLayer
    /\ ci = 0
    /\ ip = 0
    /\ x = NoTensor
    /\ p1 = NoTensor /\ p2 = NoTensor /\ p3 = NoTensor /\ p4 = NoTensor
    /\ t = NoTensor
    /\ cat = NoCat
    /\ out = <<>>
    /\ params = "uninitialized"
    /\ epoch = 0
    /\ trained = <<>>

(* Cell 1: imports and the class statement.                                 *)
Cell1 ==
    /\ pc = "cell1"
    /\ pc' = "cell2"
    /\ UNCHANGED <<blocks, X, li, layer, ci, ip, frame, cat, out, training>>

Cell2 ==
    /\ pc = "cell2"
    /\ b1' = Sequential(b1_layers)
    /\ pc' = "cell3"
    /\ UNCHANGED <<b2, b3, b4, b5, net, X, li, layer, ci, ip, frame, cat, out,
                   training>>

Cell3 ==
    /\ pc = "cell3"
    /\ b2' = Sequential(b2_layers)
    /\ pc' = "cell4"
    /\ UNCHANGED <<b1, b3, b4, b5, net, X, li, layer, ci, ip, frame, cat, out,
                   training>>

Cell4 ==
    /\ pc = "cell4"
    /\ b3' = Sequential(b3_layers)
    /\ pc' = "cell5"
    /\ UNCHANGED <<b1, b2, b4, b5, net, X, li, layer, ci, ip, frame, cat, out,
                   training>>

Cell5 ==
    /\ pc = "cell5"
    /\ b4' = Sequential(b4_layers)
    /\ pc' = "cell6_b5"
    /\ UNCHANGED <<b1, b2, b3, b5, net, X, li, layer, ci, ip, frame, cat, out,
                   training>>

Cell6_b5 ==
    /\ pc = "cell6_b5"
    /\ b5' = Sequential(b5_layers)
    /\ pc' = "cell6_net"
    /\ UNCHANGED <<b1, b2, b3, b4, net, X, li, layer, ci, ip, frame, cat, out,
                   training>>

Cell6_net ==
    /\ pc = "cell6_net"
    /\ net' = Sequential(<<b1, b2, b3, b4, b5, Dense(10)>>)
    /\ pc' = "cell7_X"
    /\ UNCHANGED <<b1, b2, b3, b4, b5, X, li, layer, ci, ip, frame, cat, out,
                   training>>

(* X = nd.random.uniform(shape=(1, 1, 96, 96))                              *)
Cell7_X ==
    /\ pc = "cell7_X"
    /\ X' = <<1, 1, 96, 96>>
    /\ pc' = "cell7_init"
    /\ UNCHANGED <<blocks, li, layer, ci, ip, frame, cat, out, training>>

(* net.initialize()                                                         *)
Cell7_init ==
    /\ pc = "cell7_init"
    /\ params' = Initialize(params, "Uniform", FALSE)
    /\ pc' = "loop"
    /\ UNCHANGED <<blocks, X, li, layer, ci, ip, frame, cat, out, epoch,
                   trained>>

-----------------------------------------------------------------------------
(* for layer in net: X = layer(X); print(layer.name, ..., X.shape)          *)

(* The loop header binds the next child of net; a forward pass through      *)
(* uninitialized parameters raises.                                         *)
LoopNext ==
    /\ pc = "loop"
    /\ li < Len(net.children)
    /\ layer' = net.children[li + 1]
    /\ ci' = 0
    /\ pc' = IF params = "uninitialized" THEN "error" ELSE "call"
    /\ UNCHANGED <<blocks, X, li, ip, frame, cat, out, training>>

(* layer(X) for a child of net that is a single layer (the Dense).          *)
CallLeaf ==
    /\ pc = "call"
    /\ layer.kind # "Sequential"
    /\ X' = Forward(layer, X)
    /\ pc' = IF Valid(X') THEN "print" ELSE "error"
    /\ UNCHANGED <<blocks, li, layer, ci, ip, frame, cat, out, training>>

(* Sequential.forward: the next child is a single layer.                    *)
SeqLeaf ==
    /\ pc = "call"
    /\ layer.kind = "Sequential"
    /\ ip = 0
    /\ ci < Len(layer.children)
    /\ layer.children[ci + 1].kind # "Inception"
    /\ X' = Forward(layer.children[ci + 1], X)
    /\ ci' = ci + 1
    /\ pc' = IF Valid(X') THEN "call" ELSE "error"
    /\ UNCHANGED <<blocks, li, layer, ip, frame, cat, out, training>>

(* Sequential.forward: the next child is an Inception block; its forward    *)
(* is entered with x bound to the current tensor.                           *)
SeqInception ==
    /\ pc = "call"
    /\ layer.kind = "Sequential"
    /\ ip = 0
    /\ ci < Len(layer.children)
    /\ layer.children[ci + 1].kind = "Inception"
    /\ x' = [shape |-> X, via |-> <<>>]
    /\ ip' = 1
    /\ UNCHANGED <<pc, blocks, X, li, layer, ci, p1, p2, p3, p4, t, cat, out,
                   training>>

(* The Inception block whose forward is running.                            *)
self == layer.children[ci + 1]

(* p1 = self.p1_1(x)                                                        *)
Forward_p1 ==
    /\ pc = "call" /\ ip = 1
    /\ p1' = Apply(self, "p1_1", x)
    /\ ip' = 2
    /\ pc' = IF Valid(p1'.shape) THEN "call" ELSE "error"
    /\ UNCHANGED <<blocks, X, li, layer, ci, x, p2, p3, p4, t, cat, out,
                   training>>

(* self.p2_1(x), the argument of self.p2_2                                  *)
Forward_p2_1 ==
    /\ pc = "call" /\ ip = 2
    /\ t' = Apply(self, "p2_1", x)
    /\ ip' = 3
    /\ pc' = IF Valid(t'.shape) THEN "call" ELSE "error"
    /\ UNCHANGED <<blocks, X, li, layer, ci, x, p1, p2, p3, p4, cat, out,
                   training>>

(* p2 = self.p2_2(...)                                                      *)
Forward_p2 ==
    /\ pc = "call" /\ ip = 3
    /\ p2' = Apply(self, "p2_2", t)
    /\ t' = NoTensor
    /\ ip' = 4
    /\ pc' = IF Valid(p2'.shape) THEN "call" ELSE "error"
    /\ UNCHANGED <<blocks, X, li, layer, ci, x, p1, p3, p4, cat, out,
                   training>>

(* A mutant of Forward_p3_1: the third path continues from p2 instead of    *)
(* starting from x.                                                         *)
Forward_p3_1_chained ==
    /\ pc = "call" /\ ip = 4
    /\ t' = Apply(self, "p3_1", p2)
    /\ ip' = 5
    /\ pc' = IF Valid(t'.shape) THEN "call" ELSE "error"
    /\ UNCHANGED <<blocks, X, li, layer, ci, x, p1, p2, p3, p4, cat, out,
                   training>>

(* self.p3_1(x), the argument of self.p3_2                                  *)
Forward_p3_1 ==
    /\ pc = "call" /\ ip = 4
    /\ t' = Apply(self, "p3_1", x)
    /\ ip' = 5
    /\ pc' = IF Valid(t'.shape) THEN "call" ELSE "error"
    /\ UNCHANGED <<blocks, X, li, layer, ci, x, p1, p2, p3, p4, cat, out,
                   training>>

(* p3 = self.p3_2(...)                                                      *)
Forward_p3 ==
    /\ pc = "call" /\ ip = 5
    /\ p3' = Apply(self, "p3_2", t)
    /\ t' = NoTensor
    /\ ip' = 6
    /\ pc' = IF Valid(p3'.shape) THEN "call" ELSE "error"
    /\ UNCHANGED <<blocks, X, li, layer, ci, x, p1, p2, p4, cat, out,
                   training>>

(* self.p4_1(x), the argument of self.p4_2                                  *)
Forward_p4_1 ==
    /\ pc = "call" /\ ip = 6
    /\ t' = Apply(self, "p4_1", x)
    /\ ip' = 7
    /\ pc' = IF Valid(t'.shape) THEN "call" ELSE "error"
    /\ UNCHANGED <<blocks, X, li, layer, ci, x, p1, p2, p3, p4, cat, out,
                   training>>

(* p4 = self.p4_2(...)                                                      *)
Forward_p4 ==
    /\ pc = "call" /\ ip = 7
    /\ p4' = Apply(self, "p4_2", t)
    /\ t' = NoTensor
    /\ ip' = 8
    /\ pc' = IF Valid(p4'.shape) THEN "call" ELSE "error"
    /\ UNCHANGED <<blocks, X, li, layer, ci, x, p1, p2, p3, cat, out,
                   training>>

(* return nd.concat(p1, p2, p3, p4, dim=1): the result is the next tensor   *)
(* of the enclosing Sequential.forward and the locals go out of scope.      *)
Forward_return ==
    /\ pc = "call" /\ ip = 8
    /\ X' = Concat(<<p1, p2, p3, p4>>, 1)
    /\ cat' = [block |-> self, input |-> x.shape, parts |-> <<p1, p2, p3, p4>>,
               result |-> X']
    /\ x' = NoTensor
    /\ p1' = NoTensor /\ p2' = NoTensor /\ p3' = NoTensor /\ p4' = NoTensor
    /\ ip' = 0
    /\ ci' = ci + 1
    /\ pc' = IF Valid(X') THEN "call" ELSE "error"
    /\ UNCHANGED <<blocks, li, layer, t, out, training>>

(* Sequential.forward returns after its last child.                         *)
SeqReturn ==
    /\ pc = "call"
    /\ layer.kind = "Sequential"
    /\ ip = 0
    /\ ci = Len(layer.children)
    /\ pc' = "print"
    /\ UNCHANGED <<blocks, X, li, layer, ci, ip, frame, cat, out, training>>

(* print(layer.name, 'output shape:\t', X.shape); the layer itself stands   *)
(* for its name.                                                            *)
PrintShape ==
    /\ pc = "print"
    /\ out' = Append(out, [layer |-> layer, shape |-> X])
    /\ li' = li + 1
    /\ layer' = NoLayer
    /\ ci' = 0
    /\ pc' = "loop"
    /\ UNCHANGED <<blocks, X, ip, frame, cat, training>>

LoopExit ==
    /\ pc = "loop"
    /\ li = Len(net.children)
    /\ pc' = "cell8_hyper"
    /\ UNCHANGED <<blocks, X, li, layer, ci, ip, frame, cat, out, training>>

-----------------------------------------------------------------------------
(* Cell 8.                                                                  *)

(* lr, num_epochs, batch_size, ctx = 0.1, 5, 128, d2l.try_gpu()             *)
Cell8_hyper ==
    /\ pc = "cell8_hyper"
    /\ pc' = "cell8_init"
    /\ UNCHANGED <<blocks, X, li, layer, ci, ip, frame, cat, out, training>>

(* A mutant of Cell8_init: force_reinit left out.                           *)
Cell8_init_keep ==
    /\ pc = "cell8_init"
    /\ params' = Initialize(params, "Xavier", FALSE)
    /\ pc' = "cell8_trainer"
    /\ UNCHANGED <<blocks, X, li, layer, ci, ip, frame, cat, out, epoch,
                   trained>>

(* net.initialize(force_reinit=True, ctx=ctx, init=init.Xavier())           *)
Cell8_init ==
    /\ pc = "cell8_init"
    /\ params' = Initialize(params, "Xavier", TRUE)
    /\ pc' = "cell8_trainer"
    /\ UNCHANGED <<blocks, X, li, layer, ci, ip, frame, cat, out, epoch,
                   trained>>

(* trainer = gluon.Trainer(net.collect_params(), 'sgd', ...)                *)
Cell8_trainer ==
    /\ pc = "cell8_trainer"
    /\ pc' = "cell8_data"
    /\ UNCHANGED <<blocks, X, li, layer, ci, ip, frame, cat, out, training>>

(* train_iter, test_iter = d2l.load_data_fashion_mnist(batch_size, ...)     *)
Cell8_data ==
    /\ pc = "cell8_data"
    /\ pc' = "cell8_train"
    /\ UNCHANGED <<blocks, X, li, layer, ci, ip, frame, cat, out, training>>

(* d2l.train_ch5(...): one epoch over the training data.                    *)
Cell8_epoch ==
    /\ pc = "cell8_train"
    /\ epoch < num_epochs
    /\ epoch' = epoch + 1
    /\ trained' = Append(trained, params)
    /\ UNCHANGED <<pc, blocks, X, li, layer, ci, ip, frame, cat, out, params>>

(* d2l.train_ch5 returns after num_epochs epochs; the notebook ends.        *)
Cell8_done ==
    /\ pc = "cell8_train"
    /\ epoch = num_epochs
    /\ pc' = "done"
    /\ UNCHANGED <<blocks, X, li, layer, ci, ip, frame, cat, out, training>>

-----------------------------------------------------------------------------
Next ==
    \/ Cell1 \/ Cell2 \/ Cell3 \/ Cell4 \/ Cell5 \/ Cell6_b5 \/ Cell6_net
    \/ Cell7_X \/ Cell7_init
    \/ LoopNext \/ CallLeaf \/ SeqLeaf \/ SeqInception
    \/ Forward_p1 \/ Forward_p2_1 \/ Forward_p2 \/ Forward_p3_1 \/ Forward_p3
    \/ Forward_p4_1 \/ Forward_p4 \/ Forward_return
    \/ SeqReturn \/ PrintShape \/ LoopExit
    \/ Cell8_hyper \/ Cell8_init \/ Cell8_trainer \/ Cell8_data
    \/ Cell8_epoch \/ Cell8_done

Spec == Init /\ [][Next]_vars

-----------------------------------------------------------------------------
(* The forward pass as a function of its input: net(X) for inputs and       *)
(* Inception arguments drawn from bounded sets.  The nets are a single      *)
(* Inception block with arbitrary channel arguments, the tail of GoogLeNet  *)
(* (b5 and the output layer), and GoogLeNet itself.                         *)

Channels == 1..MaxChannels

Shapes ==
    {<<n, c, h, w>> : n \in 1..MaxBatch, c \in 1..MaxInChannels,
                      h \in 1..MaxSide, w \in 1..MaxSide}

GoogLeNet ==
    Sequential(<<Sequential(b1_layers), Sequential(b2_layers),
                 Sequential(b3_layers), Sequential(b4_layers),
                 Sequential(b5_layers), Dense(10)>>)

Nets ==
    {Sequential(<<Sequential(<<Inception(c1, <<c2a, c2b>>, <<c3a, c3b>>, c4)>>)>>) :
        c1 \in Channels, c2a \in Channels, c2b \in Channels,
        c3a \in Channels, c3b \in Channels, c4 \in Channels}
    \cup {Sequential(<<Sequential(b5_layers), Dense(10)>>), GoogLeNet}

InitFwd ==
    /\ pc = "loop"
    /\ b1 = Sequential(b1_layers) /\ b2 = Sequential(b2_layers)
    /\ b3 = Sequential(b3_layers) /\ b4 = Sequential(b4_layers)
    /\ b5 = Sequential(b5_layers)
    /\ net \in Nets
    /\ X \in Shapes
    /\ li = 0
    /\ layer = NoLayer
    /\ ci = 0
    /\ ip = 0
    /\ x = NoTensor
    /\ p1 = NoTensor /\ p2 = NoTensor /\ p3 = NoTensor /\ p4 = NoTensor
    /\ t = NoTensor
    /\ cat = NoCat
    /\ out = <<>>
    /\ params = "Uniform"
    /\ epoch = 0
    /\ trained = <<>>

NextFwd ==
    \/ LoopNext \/ CallLeaf \/ SeqLeaf \/ SeqInception
    \/ Forward_p1 \/ Forward_p2_1 \/ Forward_p2 \/ Forward_p3_1 \/ Forward_p3
    \/ Forward_p4_1 \/ Forward_p4 \/ Forward_return
    \/ SeqReturn \/ PrintShape \/ LoopExit

SpecFwd == InitFwd /\ [][NextFwd]_vars

-----------------------------------------------------------------------------
(* Helpers of the properties.                                               *)

Built(blk) == blk.kind = "Sequential"

InceptionsOf(blk) ==
    SelectSeq(blk.children, LAMBDA l : l.kind = "Inception")

(* The output channels c1, c2[1], c3[1], c4 (source indexing) of a block.   *)
PathChannels(blk) ==
    <<blk.p1_1.channels, blk.p2_2.channels, blk.p3_2.channels,
      blk.p4_2.channels>>

(* The sums the prose states for the nine blocks, in order: four terms and  *)
(* the stated total.                                                        *)
DocChannelSums ==
    << <<64, 128, 32, 32, 256>>,
       <<128, 192, 96, 64, 480>>,
       <<192, 208, 48, 64, 512>>,
       <<160, 224, 64, 64, 512>>,
       <<128, 256, 64, 64, 512>>,
       <<112, 288, 64, 64, 528>>,
       <<256, 320, 128, 128, 832>>,
       <<256, 320, 128, 128, 832>>,
       <<384, 384, 128, 128, 1024>> >>

Stride2Pools(blk) ==
    SelectSeq(blk.children,
              LAMBDA l : l.kind = "MaxPool2D" /\ l.strides = 2)

-----------------------------------------------------------------------------
(* C1: once b3, b4 and b5 are constructed, the nine Inception blocks they   *)
(* hold have, in order, exactly the four output channel counts the prose    *)
(* states, and each total the prose states is the sum of its four terms.    *)
C1_DocumentedSums ==
    Built(b3) /\ Built(b4) /\ Built(b5) =>
        LET incs == InceptionsOf(b3) \o InceptionsOf(b4) \o InceptionsOf(b5)
        IN /\ Len(incs) = Len(DocChannelSums)
           /\ \A i \in 1..Len(incs) :
                 /\ PathChannels(incs[i]) = SubSeq(DocChannelSums[i], 1, 4)
                 /\ DocChannelSums[i][5] =
                       DocChannelSums[i][1] + DocChannelSums[i][2]
                       + DocChannelSums[i][3] + DocChannelSums[i][4]

C1_Witness == Built(b3) /\ Built(b4) /\ Built(b5) /\ pc = "cell6_net"

(* C2: every path of Inception.forward starts from the block input x, the   *)
(* concatenation takes p1, p2, p3, p4 in this order, and its result has the *)
(* batch size of x and c1 + c2[1] + c3[1] + c4 channels, whatever the input *)
(* channels and the reduction widths c2[0], c3[0] are.                      *)
C2_ForwardChannels ==
    /\ p1 # NoTensor => p1.via = <<"p1_1">>
    /\ p2 # NoTensor => p2.via = <<"p2_1", "p2_2">>
    /\ p3 # NoTensor => p3.via = <<"p3_1", "p3_2">>
    /\ p4 # NoTensor => p4.via = <<"p4_1", "p4_2">>
    /\ cat # NoCat =>
          /\ [i \in 1..4 |-> cat.parts[i].via] =
                << <<"p1_1">>, <<"p2_1", "p2_2">>, <<"p3_1", "p3_2">>,
                   <<"p4_1", "p4_2">> >>
          /\ Len(cat.result) = 4
          /\ cat.result[1] = cat.input[1]
          /\ cat.result[2] =
                cat.block.p1_1.channels + cat.block.p2_2.channels
                + cat.block.p3_2.channels + cat.block.p4_2.channels

C2_Witness ==
    /\ cat # NoCat
    /\ cat.input[1] = 2 /\ cat.input[2] = 1
    /\ cat.block.p2_1.channels = 2 /\ cat.block.p2_2.channels = 1
    /\ cat.block.p3_1.channels = 1 /\ cat.block.p3_2.channels = 2
    /\ cat.block.p1_1.channels = 2 /\ cat.block.p4_2.channels = 2
    /\ cat.result[1] = 2 /\ cat.result[2] = 7

(* C3: each of the four paths outputs the height and width of the block     *)
(* input, for every input height and width, so the four operands of the     *)
(* concatenation agree on every axis but the channel axis and the           *)
(* concatenation yields a tensor of the input's height and width.           *)
C3_SameHeightWidth ==
    /\ \A p \in {p1, p2, p3, p4} :
          p # NoTensor =>
             /\ Valid(p.shape)
             /\ p.shape[3] = x.shape[3] /\ p.shape[4] = x.shape[4]
    /\ cat # NoCat =>
          /\ \A i \in 1..4 :
                /\ cat.parts[i].shape[1] = cat.input[1]
                /\ cat.parts[i].shape[3] = cat.input[3]
                /\ cat.parts[i].shape[4] = cat.input[4]
          /\ Valid(cat.result)
          /\ cat.result[3] = cat.input[3] /\ cat.result[4] = cat.input[4]

C3_Witness ==
    /\ cat # NoCat
    /\ cat.input[3] = 1 /\ cat.input[4] = MaxSide
    /\ cat.parts[3].shape[3] = 1 /\ cat.parts[3].shape[4] = MaxSide
    /\ Valid(cat.result)

(* C4: net is b1, b2, b3, b4, b5 and the Dense layer; the groups hold 0, 0, *)
(* 2, 5 and 2 Inception blocks, nine in all; b3 and b4 each hold exactly    *)
(* one stride-2 maximum pooling layer, as their last child, after their     *)
(* Inception blocks.                                                        *)
C4_NineBlocks ==
    Built(net) =>
        /\ net.children = <<b1, b2, b3, b4, b5, Dense(10)>>
        /\ Len(InceptionsOf(b1)) = 0
        /\ Len(InceptionsOf(b2)) = 0
        /\ Len(InceptionsOf(b3)) = 2
        /\ Len(InceptionsOf(b4)) = 5
        /\ Len(InceptionsOf(b5)) = 2
        /\ Len(InceptionsOf(b1)) + Len(InceptionsOf(b2))
           + Len(InceptionsOf(b3)) + Len(InceptionsOf(b4))
           + Len(InceptionsOf(b5)) = 9
        /\ \A blk \in {b3, b4} :
              /\ Len(Stride2Pools(blk)) = 1
              /\ blk.children[Len(blk.children)] = MaxPool2D(3, 2, 1)
              /\ \A i \in 1..(Len(blk.children) - 1) :
                    blk.children[i].kind = "Inception"
        /\ Len(Stride2Pools(b5)) = 0

C4_Witness == Built(net) /\ pc = "cell7_X"

(* C5: the 3 x 3 convolution of b2 triples the 64 channels of its 1 x 1     *)
(* convolution; the first Inception block of b3 receives 192 channels and   *)
(* reduces them to 96 (1/2) and 16 (1/12) on its second and third paths,    *)
(* the second receives 256 channels and reduces them to 128 (1/2) and 32    *)
(* (1/8).                                                                   *)
C5_ReductionRatios ==
    /\ Built(b2) =>
          /\ b2.children[1].channels = 64
          /\ b2.children[2].channels = 3 * b2.children[1].channels
    /\ (Built(net) /\ pc = "call" /\ layer = b3 /\ ip > 0 /\ ci = 0) =>
          /\ x.shape[2] = 192
          /\ self.p2_1.channels = 96 /\ 2 * self.p2_1.channels = x.shape[2]
          /\ self.p3_1.channels = 16 /\ 12 * self.p3_1.channels = x.shape[2]
    /\ (Built(net) /\ pc = "call" /\ layer = b3 /\ ip > 0 /\ ci = 1) =>
          /\ x.shape[2] = 256
          /\ self.p2_1.channels = 128 /\ 2 * self.p2_1.channels = x.shape[2]
          /\ self.p3_1.channels = 32 /\ 8 * self.p3_1.channels = x.shape[2]

C5_Witness == pc = "call" /\ layer = b3 /\ ci = 1 /\ ip = 5

C7_GlobalPoolAndOutput ==
    /\ (pc \in {"call", "print"} /\ layer = b5 /\ ci = Len(b5.children)) =>
          /\ cat.result[2] = 1024
          /\ X = <<cat.result[1], 1024, 1, 1>>
    /\ \A i \in 1..Len(out) :
          /\ out[i].layer = b5 =>
                out[i].shape = <<cat.input[1], 1024, 1, 1>>
          /\ out[i].layer = Dense(10) =>
                /\ i > 1
                /\ out[i].shape = <<out[i - 1].shape[1], 10>>

C7_Witness ==
    /\ Len(out) = 2
    /\ out[1].layer = b5 /\ out[2].layer = Dense(10)
    /\ cat.result = <<MaxBatch, 1024, MaxSide, 2>>
    /\ out[1].shape = <<MaxBatch, 1024, 1, 1>>
    /\ out[2].shape = <<MaxBatch, 10>>

(* C8: from X of shape (1, 1, 96, 96) the loop prints (1, 64, 24, 24),      *)
(* (1, 192, 12, 12), (1, 480, 6, 6), (1, 832, 3, 3), (1, 1024, 1, 1) and    *)
(* (1, 10), in this order, no layer raises, and every tensor on the way has *)
(* only positive dimensions.                                                *)
C8_PrintedShapes ==
    LET expected == << <<1, 64, 24, 24>>, <<1, 192, 12, 12>>,
                       <<1, 480, 6, 6>>, <<1, 832, 3, 3>>,
                       <<1, 1024, 1, 1>>, <<1, 10>> >>
    IN /\ pc # "error"
       /\ Len(out) <= Len(expected)
       /\ \A i \in 1..Len(out) : out[i].shape = expected[i]
       /\ X # <<>> => Valid(X)
       /\ \A p \in {x, p1, p2, p3, p4, t} : p # NoTensor => Valid(p.shape)
       /\ pc = "cell7_init" => X = <<1, 1, 96, 96>>
       /\ pc \in {"cell8_hyper", "done"} => Len(out) = Len(expected)

C8_Witness == pc = "cell8_hyper" /\ Len(out) = 6 /\ X = <<1, 10>>

(* C9: no forward pass runs before net.initialize(); the loop visits b1,    *)
(* b2, b3, b4, b5 and the Dense layer once each in this order, each on the  *)
(* output of the one before, and ends after six iterations; cell 8 runs     *)
(* only after the loop, and every epoch of training runs on parameters that *)
(* derive from the Xavier re-initialization.                                *)
C9_TopToBottom ==
    LET order == <<b1, b2, b3, b4, b5, Dense(10)>>
        cell8 == {"cell8_hyper", "cell8_init", "cell8_trainer", "cell8_data",
                  "cell8_train", "done"}
    IN /\ pc # "error"
       /\ (pc \in {"call", "print"} \/ out # <<>>) => params # "uninitialized"
       /\ li = Len(out) /\ li <= 6
       /\ \A i \in 1..Len(out) : out[i].layer = order[i]
       /\ pc \in {"call", "print"} => layer = order[li + 1]
       /\ (pc = "loop" /\ li > 0) => X = out[li].shape
       /\ (pc = "call" /\ li > 0 /\ ci = 0 /\ ip = 0) => X = out[li].shape
       /\ pc \in cell8 => li = 6
       /\ (pc \notin cell8) => (epoch = 0 /\ params # "Xavier")
       /\ pc \in {"cell8_trainer", "cell8_data", "cell8_train", "done"} =>
             params = "Xavier"
       /\ Len(trained) = epoch
       /\ \A i \in 1..Len(trained) : trained[i] = "Xavier"
       /\ pc = "done" => epoch = num_epochs

C9_Witness == pc = "done" /\ Len(out) = 6 /\ Len(trained) = num_epochs
====
